---- MODULE Spec2Model ----
(***************************************************************************)
(* Attendless-NIBM: attendance calculator over a class schedule.           *)
(*   src/NIBM.py            the command-line program                       *)
(*   src/attendlessnibm.py  the Streamlit program                          *)
(* Strings are TLA+ strings (Len, SubSeq and \o act on them); a character  *)
(* is a string of length 1.                                                *)
(***************************************************************************)
EXTENDS Integers, Sequences, FiniteSets, TLC

VARIABLES
  \* calculate_holiday_allowance: its arguments and what it returned
  total_sessions, current_missed, min_percentage, allowance,
  \* which program runs: "cli" (NIBM.py) or "ui" (attendlessnibm.py)
  app,
  \* the mappings dict in memory: <<key, code>> pairs in insertion order
  mappings,
  \* module_mappings.json on disk
  file,
  \* get_module_code_for_session: where the call is, its argument, its locals
  \* normalized and module_code, and what it returned
  pc, session_text, normalized, module_code, result,
  \* the "Mapped '...' -> code" lines printed so far: the <<key, code>> pairs
  \* put in mappings during this run, in order
  recorded,
  \* where the run of the program is
  stage,
  \* build_module_list / get_unmapped_sessions: all_sessions (the session
  \* columns one after the other, empty cells dropped), the position of the
  \* for loop in it, the modules set, and the list get_unmapped_sessions gave
  all_sessions, next_session, modules, unmapped,
  \* the sheet given, the table load_schedule returned, and the sorted list of modules
  source, df, module_list,
  \* the module chosen, what int(input()) gave at the last prompt, the cell
  \* the count or the breakdown is at, and what they have counted
  selected_module, choice, choice_index, cell_index, total_lectures, details,
  lecture_count, tutorial_count,
  \* the missed sessions entered, attendance_percentage and the status shown
  missed_sessions, attendance_percentage, status

allowanceVars == <<total_sessions, current_missed, min_percentage, allowance>>
classifyVars == <<app, mappings, file, pc, session_text, normalized, module_code, result, recorded>>
runVars == <<stage, all_sessions, next_session, modules, unmapped, source, df,
            module_list>>
reportVars == <<selected_module, choice, choice_index, cell_index, total_lectures,
                details, lecture_count, tutorial_count, missed_sessions,
                attendance_percentage, status>>
vars == <<allowanceVars, classifyVars, runVars, reportVars>>

\* Python's None, and a str value, as a function returns them
None == <<>>
Str(s) == <<s>>

(***************************************************************************)
(* Python strings.  Session labels are single-line text, so the whitespace *)
(* that str.strip() and the pattern \s see is the space and the tab.       *)
(***************************************************************************)
Whitespace == {" ", "\t"}

ToLower ==
  [c \in {"A","B","C","D","E","F","G","H","I","J","K","L","M",
          "N","O","P","Q","R","S","T","U","V","W","X","Y","Z"} |->
     CASE c = "A" -> "a" [] c = "B" -> "b" [] c = "C" -> "c" [] c = "D" -> "d"
       [] c = "E" -> "e" [] c = "F" -> "f" [] c = "G" -> "g" [] c = "H" -> "h"
       [] c = "I" -> "i" [] c = "J" -> "j" [] c = "K" -> "k" [] c = "L" -> "l"
       [] c = "M" -> "m" [] c = "N" -> "n" [] c = "O" -> "o" [] c = "P" -> "p"
       [] c = "Q" -> "q" [] c = "R" -> "r" [] c = "S" -> "s" [] c = "T" -> "t"
       [] c = "U" -> "u" [] c = "V" -> "v" [] c = "W" -> "w" [] c = "X" -> "x"
       [] c = "Y" -> "y" [] c = "Z" -> "z"]

UpperLetters == DOMAIN ToLower
LowerLetters == {ToLower[c] : c \in UpperLetters}

Char(s, i) == SubSeq(s, i, i)
IsSpace(c) == c \in Whitespace
\* [A-Z] and [a-z] under re.IGNORECASE: any letter
IsLetter(c) == c \in UpperLetters \/ c \in LowerLetters

\* str.lower()
RECURSIVE str_lower(_)
str_lower(s) ==
  IF Len(s) = 0 THEN s
  ELSE IF Len(s) = 1 THEN (IF s \in UpperLetters THEN ToLower[s] ELSE s)
  ELSE LET h == Len(s) \div 2
       IN str_lower(SubSeq(s, 1, h)) \o str_lower(SubSeq(s, h + 1, Len(s)))

\* str.upper()
RECURSIVE str_upper(_)
str_upper(s) ==
  IF Len(s) = 0 THEN s
  ELSE IF Len(s) = 1
    THEN (IF s \in LowerLetters THEN CHOOSE c \in UpperLetters : ToLower[c] = s ELSE s)
  ELSE LET h == Len(s) \div 2
       IN str_upper(SubSeq(s, 1, h)) \o str_upper(SubSeq(s, h + 1, Len(s)))

SetMin(S) == CHOOSE x \in S : \A y \in S : x <= y
SetMax(S) == CHOOSE x \in S : \A y \in S : y <= x

\* str.strip()
str_strip(s) ==
  LET solid == {i \in 1..Len(s) : ~IsSpace(Char(s, i))}
  IN IF solid = {} THEN "" ELSE SubSeq(s, SetMin(solid), SetMax(solid))

\* sub in s
Contains(sub, s) ==
  \/ Len(sub) = 0
  \/ \E i \in 1..(Len(s) - Len(sub) + 1) : SubSeq(s, i, i + Len(sub) - 1) = sub

\* any(keyword in text for keyword in keywords)
AnyIn(keywords, text) == \E k \in 1..Len(keywords) : Contains(keywords[k], text)

(***************************************************************************)
(* The regular expressions of normalize_session_text, by what re.sub does  *)
(* with them: each pattern ends in $, so a match runs to the end of the    *)
(* text and re.sub deletes the text from the leftmost position a match     *)
(* can start at.                                                           *)
(***************************************************************************)
\* First index >= i that holds no whitespace, Len(s) + 1 when there is none.
SkipSpaces(s, i) ==
  LET solid == {j \in i..Len(s) : ~IsSpace(Char(s, j))}
  IN IF solid = {} THEN Len(s) + 1 ELSE SetMin(solid)

\* Where the whitespace run that ends just before index d starts.
StartOfSpaces(s, d) ==
  LET solid == {j \in 1..(d - 1) : ~IsSpace(Char(s, j))}
  IN IF solid = {} THEN 1 ELSE SetMax(solid) + 1

\* word matches at index i, ignoring case
WordAt(s, i, word) ==
  /\ i + Len(word) - 1 <= Len(s)
  /\ str_lower(SubSeq(s, i, i + Len(word) - 1)) = word

\* (Ms|Mr|Dr|Prof|Professor)
Titles == <<"ms", "mr", "dr", "prof", "professor">>
\* (tutorial|practical|tute|prac|lab)
Qualifiers == <<"tutorial", "practical", "tute", "prac", "lab">>

\* (Ms|Mr|Dr|Prof|Professor)\.?\s+[A-Z][a-z]+.*$ matches from index j
InstructorAt(s, j) ==
  \E t \in 1..Len(Titles) :
    /\ WordAt(s, j, Titles[t])
    /\ LET k == j + Len(Titles[t])
       IN \E k2 \in {k} \cup (IF k <= Len(s) /\ Char(s, k) = "." THEN {k + 1} ELSE {}) :
            /\ k2 <= Len(s)
            /\ IsSpace(Char(s, k2))
            /\ LET m == SkipSpaces(s, k2)
               IN /\ m + 1 <= Len(s)
                  /\ IsLetter(Char(s, m))
                  /\ IsLetter(Char(s, m + 1))

\* (tutorial|practical|tute|prac|lab)\s*$ matches from index j
QualifierAt(s, j) ==
  \E q \in 1..Len(Qualifiers) :
    /\ WordAt(s, j, Qualifiers[q])
    /\ SkipSpaces(s, j + Len(Qualifiers[q])) = Len(s) + 1

\* s cut at the leftmost start among starts (unchanged when there is none)
CutAt(s, starts) == IF starts = {} THEN s ELSE SubSeq(s, 1, SetMin(starts) - 1)

\* re.sub(r'\s*-\s*(Ms|Mr|Dr|Prof|Professor)\.?\s+[A-Z][a-z]+.*$', '', s, flags=re.IGNORECASE)
SubDashInstructor(s) ==
  CutAt(s, {StartOfSpaces(s, d) : d \in
              {d \in 1..Len(s) : Char(s, d) = "-" /\ InstructorAt(s, SkipSpaces(s, d + 1))}})

\* re.sub(r'\s+(Ms|Mr|Dr|Prof|Professor)\.?\s+[A-Z][a-z]+.*$', '', s, flags=re.IGNORECASE)
SubSpaceInstructor(s) ==
  CutAt(s, {StartOfSpaces(s, j) : j \in
              {j \in 2..Len(s) : IsSpace(Char(s, j - 1)) /\ InstructorAt(s, j)}})

\* re.sub(r'\s*-\s*(tutorial|practical|tute|prac|lab)\s*$', '', s, flags=re.IGNORECASE)
SubDashQualifier(s) ==
  CutAt(s, {StartOfSpaces(s, d) : d \in
              {d \in 1..Len(s) : Char(s, d) = "-" /\ QualifierAt(s, SkipSpaces(s, d + 1))}})

\* re.sub(r'\s+(tutorial|practical|tute|prac|lab)\s*$', '', s, flags=re.IGNORECASE)
SubSpaceQualifier(s) ==
  CutAt(s, {StartOfSpaces(s, j) : j \in
              {j \in 2..Len(s) : IsSpace(Char(s, j - 1)) /\ QualifierAt(s, j)}})

\* re.sub(r'\s*-\s*$', '', s)
SubTrailingDash(s) ==
  CutAt(s, {StartOfSpaces(s, d) : d \in
              {d \in 1..Len(s) : Char(s, d) = "-" /\ SkipSpaces(s, d + 1) = Len(s) + 1}})

\* re.sub(r'\s+', ' ', s)
RECURSIVE SubSpaces(_)
SubSpaces(s) ==
  IF Len(s) = 0 THEN s
  ELSE IF Len(s) = 1 THEN (IF IsSpace(s) THEN " " ELSE s)
  ELSE LET h == Len(s) \div 2
           l == SubSpaces(SubSeq(s, 1, h))
           r == SubSpaces(SubSeq(s, h + 1, Len(s)))
       IN IF Char(l, Len(l)) = " " /\ Char(r, 1) = " " THEN l \o Tail(r) ELSE l \o r

(***************************************************************************)
(* normalize_session_text(text), for a text that is present (the callers   *)
(* test pd.isna before they pass a cell on).                               *)
(***************************************************************************)
normalize_session_text(text) ==
  LET t0 == str_strip(text)
      t1 == SubDashInstructor(t0)
      t2 == SubSpaceInstructor(t1)
      t3 == SubDashQualifier(t2)
      t4 == SubSpaceQualifier(t3)
      t5 == SubTrailingDash(t4)
  IN str_strip(SubSpaces(t5))

exam_keywords == <<"examination", "exam", "coursework", "viva", "cw", "course work">>

\* (mutant: the keywords are sought in the text as written, .lower() left out)
is_exam_session_case_sensitive(text) == AnyIn(exam_keywords, text)

is_exam_session(text) == AnyIn(exam_keywords, str_lower(text))

is_tutorial_or_practical(cell) == AnyIn(Qualifiers, str_lower(cell))

(***************************************************************************)
(* The mappings dict.  A dict keeps insertion order; assigning to a key it *)
(* holds keeps the key's place.                                            *)
(***************************************************************************)
Keys(m) == {m[i][1] : i \in 1..Len(m)}
HasKey(m, k) == \E i \in 1..Len(m) : m[i][1] = k
\* (mutant: the code of the oldest entry, whatever the key)
GetOldest(m, k) == m[1][2]

Get(m, k) == m[CHOOSE i \in 1..Len(m) : m[i][1] = k][2]
\* (mutant: the assignment is lost)
PutNothing(m, k, v) == m

Put(m, k, v) ==
  IF HasKey(m, k) THEN [i \in 1..Len(m) |-> IF m[i][1] = k THEN <<k, v>> ELSE m[i]]
  ELSE Append(m, <<k, v>>)

(***************************************************************************)
(* The inputs the classifier is exercised on.                              *)
(***************************************************************************)
\* Most mappings a store starts with.
MaxStore == 2

KeyPool == {"dsa", "DSA", "data", "data structures", "os", "operating systems"}
CodePool == {"DSA", "OS", "EXAM"}

\* Stores of n entries with distinct keys, in every insertion order.
RECURSIVE StoresOfLen(_)
StoresOfLen(n) ==
  IF n = 0 THEN {<<>>}
  ELSE {Append(m, <<k, c>>) : m \in StoresOfLen(n - 1), k \in KeyPool, c \in CodePool}
StorePool ==
  UNION {{m \in StoresOfLen(n) : Cardinality(Keys(m)) = n} : n \in 0..MaxStore}

LabelBases == {"", "DSA", "Data Structures", "DataStructures",
               "Data Structures and Algorithms", "OS", "Operating Systems", "Holiday"}
LabelSuffixes == {"", " Lab", " - Tutorial", " Lab Tutorial", " - Dr Smith",
                  " Mr. Cwik", " Exam", "  -"}
Labels == {b \o x : b \in LabelBases, x \in LabelSuffixes}
            \cup {" lunch ", "nan", " - Dr Cwik"}

\* What the operator types at "Enter module code".
Inputs == {"", " dsa ", "exam"}

\* The session cells a schedule is made of.
CellPool == {"DSA", "DSA Lab", "DSA Lab Tutorial", "DSA Mr. Cwik", "Holiday Lab",
             " lunch ", "OS", "DSA OS"}

\* s.replace(" ", "")
RECURSIVE RemoveSpaces(_)
RemoveSpaces(s) ==
  IF Len(s) = 0 THEN s
  ELSE IF Len(s) = 1 THEN (IF s = " " THEN "" ELSE s)
  ELSE LET h == Len(s) \div 2
       IN RemoveSpaces(SubSeq(s, 1, h)) \o RemoveSpaces(SubSeq(s, h + 1, Len(s)))

\* ["inauguration", "holiday", "break", "lunch", "nan"]
Placeholders == {"inauguration", "holiday", "break", "lunch", "nan"}

\* normalized = normalize_session_text(session_text).lower()
normalized_of(text) == str_lower(normalize_session_text(text))

\* NIBM.py: key.lower() in normalized or normalized in key.lower()
cli_key_matches(key, n) ==
  Contains(str_lower(key), n) \/ Contains(n, str_lower(key))

\* (mutant: the label is sought in a key, never a key in the label)
ui_label_in_key(key, n) ==
  \/ Contains(n, str_lower(key))
  \/ RemoveSpaces(str_lower(key)) = RemoveSpaces(n)

\* attendlessnibm.py: the same, or equal once the spaces are removed
ui_key_matches(key, n) ==
  \/ Contains(str_lower(key), n) \/ Contains(n, str_lower(key))
  \/ RemoveSpaces(str_lower(key)) = RemoveSpaces(n)

\* The functions above, tabulated once over the labels, cells and keys of
\* the pools.
StripMemo == [c \in CellPool |-> str_strip(c)]
MemoLabels == Labels \cup {StripMemo[c] : c \in CellPool}
ExamMemo == [l \in MemoLabels |-> is_exam_session(l)]
NormalizedMemo == [l \in MemoLabels |-> normalized_of(l)]
NormalForms == {NormalizedMemo[l] : l \in MemoLabels}
MemoKeys == KeyPool \cup NormalForms
CliMatchMemo == [k \in MemoKeys |-> {n \in NormalForms : cli_key_matches(k, n)}]
UiMatchMemo == [k \in MemoKeys |-> {n \in NormalForms : ui_key_matches(k, n)}]

Stripped(cell) == StripMemo[cell]
IsExam(text) == ExamMemo[text]
NormalizedOf(text) == NormalizedMemo[text]
CliKeyMatches(key, n) == n \in CliMatchMemo[key]
UiKeyMatches(key, n) == n \in UiMatchMemo[key]

\* return code, at the first of the places hits of m: the loop is left there;
\* None when the loop ends without a hit
first_hit(m, hits) == IF hits = {} THEN None ELSE Str(m[SetMin(hits)][2])
last_hit(m, hits) == IF hits = {} THEN None ELSE Str(m[SetMax(hits)][2])

\* (mutant: the scan keeps going and the last matching key wins)
cli_scan_last_match(m, n) ==
  last_hit(m, {i \in 1..Len(m) : CliKeyMatches(m[i][1], n)})

\* for key, code in mappings.items(): the code of the first key that matches
cli_scan(m, n) ==
  first_hit(m, {i \in 1..Len(m) : CliKeyMatches(m[i][1], n)})

ui_scan(m, n) ==
  first_hit(m, {i \in 1..Len(m) : UiKeyMatches(m[i][1], n)})

\* (mutant: only the empty text is skipped)
is_skipped_when_empty(n) == n = ""

\* not normalized or normalized in [placeholders]
is_skipped(n) == n = "" \/ n \in Placeholders

(***************************************************************************)
(* get_module_code_for_session(session_text, mappings)                     *)
(*   NIBM.py, up to "Not found, ask user": [ask, value], ask when no rule  *)
(*   returned and the operator is asked.                                   *)
(***************************************************************************)
\* The scan has returned found, or has ended and the operator is asked.
found_or_ask(found) ==
  IF found # None THEN [ask |-> FALSE, value |-> found]
  ELSE [ask |-> TRUE, value |-> None]

\* From "Skip non-academic sessions" on, for the normalized text n.
cli_lookup_normalized(n, m) ==
  IF is_skipped(n) THEN [ask |-> FALSE, value |-> None]
  ELSE IF HasKey(m, n) THEN [ask |-> FALSE, value |-> Str(Get(m, n))]
  ELSE found_or_ask(cli_scan(m, n))

cli_lookup(text, m) ==
  IF IsExam(text) THEN [ask |-> FALSE, value |-> Str("EXAM")]
  ELSE cli_lookup_normalized(NormalizedOf(text), m)

\* attendlessnibm.py: the whole function
ui_lookup_normalized(n, m) ==
  IF is_skipped(n) THEN None
  ELSE IF HasKey(m, n) THEN Str(Get(m, n))
  ELSE ui_scan(m, n)

ui_get_module_code_for_session(text, m) ==
  IF IsExam(text) THEN Str("EXAM")
  ELSE ui_lookup_normalized(NormalizedOf(text), m)

(***************************************************************************)
(* Python numbers.  min_percentage / 100 is a true division giving an      *)
(* IEEE-754 double, total_sessions * <double> is a double product rounded  *)
(* to nearest-even, and int() truncates.  A double is kept exactly as      *)
(* [bits, exp]: bits is the significand, least significant bit first, and  *)
(* the value is bits * 2^(-exp).                                           *)
(***************************************************************************)
MantissaBits == 53
\* Significands are multiplied in limbs of LimbBits bits, least significant first.
LimbBits == 12

RECURSIVE BinLSB(_)
BinLSB(n) == IF n = 0 THEN <<>> ELSE <<n % 2>> \o BinLSB(n \div 2)

Reverse(s) == [i \in 1..Len(s) |-> s[Len(s) + 1 - i]]

RECURSIVE BitsToInt(_)
BitsToInt(lsb) == IF lsb = <<>> THEN 0 ELSE Head(lsb) + 2 * BitsToInt(Tail(lsb))

\* lsb + 1
IncLSB(lsb) ==
  LET zeros == {i \in 1..Len(lsb) : lsb[i] = 0}
  IN IF zeros = {} THEN [i \in 1..(Len(lsb) + 1) |-> IF i = Len(lsb) + 1 THEN 1 ELSE 0]
     ELSE LET z == CHOOSE i \in zeros : \A j \in zeros : i <= j
          IN [i \in 1..Len(lsb) |-> IF i < z THEN 0 ELSE IF i = z THEN 1 ELSE lsb[i]]

\* lsb without its high-order zero bits
StripHigh(lsb) ==
  LET ones == {i \in 1..Len(lsb) : lsb[i] = 1}
  IN IF ones = {} THEN <<>>
     ELSE SubSeq(lsb, 1, CHOOSE i \in ones : \A j \in ones : j <= i)

\* Round an exact significand to MantissaBits bits, ties to even:
\* [bits, shift] with value bits * 2^shift.
RoundToMantissa(lsb) ==
  IF Len(lsb) <= MantissaBits THEN [bits |-> lsb, shift |-> 0]
  ELSE LET q == Len(lsb) - MantissaBits
           kept == SubSeq(lsb, q + 1, Len(lsb))
           sticky == \E i \in 1..(q - 1) : lsb[i] = 1
           up == lsb[q] = 1 /\ (sticky \/ kept[1] = 1)
       IN [bits |-> IF up THEN IncLSB(kept) ELSE kept, shift |-> q]

\* Zero bits after the binary point of r / d (0 < r < d) before its first 1.
RECURSIVE LeadingZeros(_, _)
LeadingZeros(r, d) == IF 2 * r >= d THEN 0 ELSE 1 + LeadingZeros(2 * r, d)

\* 2^n mod d
RECURSIVE Pow2Mod(_, _)
Pow2Mod(n, d) ==
  IF n = 0 THEN 1 % d
  ELSE LET h == Pow2Mod(n \div 2, d)
       IN (((h * h) % d) * (IF n % 2 = 1 THEN 2 ELSE 1)) % d

\* The remainder of the long division r / d (r < d) after n quotient bits.
FracRem(r, d, n) == (r * Pow2Mod(n, d)) % d

\* The first n bits of r / d after the binary point, most significant first.
FracBits(r, d, n) ==
  [i \in 1..n |-> IF 2 * FracRem(r, d, i - 1) >= d THEN 1 ELSE 0]

\* a / d for ints a >= 0, d > 0: the correctly rounded double.
TrueDiv(a, d) ==
  LET ip == Reverse(BinLSB(a \div d))
      r0 == a % d
  IN IF r0 = 0 THEN [bits |-> Reverse(ip), exp |-> 0]
     ELSE LET z == IF ip = <<>> THEN LeadingZeros(r0, d) ELSE 0
              r1 == FracRem(r0, d, z)
              n == MantissaBits - Len(ip)
              msb == ip \o FracBits(r1, d, n)
              rem == FracRem(r1, d, n)
              up == 2 * rem > d \/ (2 * rem = d /\ msb[Len(msb)] = 1)
              lsb == Reverse(msb)
          IN [bits |-> IF up THEN IncLSB(lsb) ELSE lsb, exp |-> z + n]

\* The limbs of lsb.
Limbs(lsb) ==
  [j \in 1..((Len(lsb) + LimbBits - 1) \div LimbBits) |->
     BitsToInt(SubSeq(lsb, LimbBits * (j - 1) + 1,
                      IF LimbBits * j <= Len(lsb) THEN LimbBits * j ELSE Len(lsb)))]

\* limbs * k + c in limbs, for 0 <= c < k <= 2^LimbBits
RECURSIVE MulLimbs(_, _, _)
MulLimbs(limbs, k, c) ==
  IF limbs = <<>> THEN (IF c = 0 THEN <<>> ELSE <<c>>)
  ELSE LET t == Head(limbs) * k + c
       IN <<t % (2 ^ LimbBits)>> \o MulLimbs(Tail(limbs), k, t \div (2 ^ LimbBits))

\* The bits of a limb sequence.
LimbsToBits(limbs) ==
  StripHigh([i \in 1..(LimbBits * Len(limbs)) |->
               (limbs[((i - 1) \div LimbBits) + 1] \div (2 ^ ((i - 1) % LimbBits))) % 2])

\* k * f for an int 0 <= k <= 2^LimbBits and a double f >= 0, rounded to
\* nearest-even.
FloatMul(k, f) ==
  IF k = 0 THEN [bits |-> <<>>, exp |-> 0]
  ELSE LET r == RoundToMantissa(LimbsToBits(MulLimbs(Limbs(f.bits), k, 0)))
       IN [bits |-> r.bits, exp |-> f.exp - r.shift]

\* int(f) for a double f >= 0 below 2^LimbBits: truncation.
FloatToInt(f) ==
  IF f.exp <= 0 THEN BitsToInt(f.bits)
  ELSE IF f.exp >= Len(f.bits) THEN 0
  ELSE BitsToInt(SubSeq(f.bits, f.exp + 1, Len(f.bits)))

Max(a, b) == IF a >= b THEN a ELSE b

(***************************************************************************)
(* calculate_holiday_allowance(total_sessions, current_missed,             *)
(*                             min_percentage=80)                          *)
(***************************************************************************)
DefaultMinPercentage == 80

\* min_sessions_needed = int(total_sessions * (min_percentage / 100))
min_sessions_needed(total, pct) == FloatToInt(FloatMul(total, TrueDiv(pct, 100)))

\* Returns the tuple (allowance, min_sessions_needed).
calculate_holiday_allowance(total, missed, pct) ==
  LET needed == min_sessions_needed(total, pct)
      sessions_attended == total - missed
      max_total_missed == total - needed
      additional_misses_allowed == max_total_missed - missed
  IN <<Max(0, additional_misses_allowed), needed>>

(***************************************************************************)
(* module_mappings.json.  open(..., 'w') truncates the file at once; the   *)
(* text json.dump writes is in the file, whole, when the with block has    *)
(* closed it.  entries is what a json.load of the file would yield and     *)
(* complete tells whether the text is a whole JSON object.                 *)
(***************************************************************************)
\* module_mappings.json: not there; there but not JSON (cut short, or edited
\* by hand into something json.load rejects); there but not to be opened for
\* reading; holding the store m as json.dump wrote it.
Absent == [exists |-> FALSE, readable |-> FALSE, entries |-> <<>>, complete |-> FALSE]
Corrupt == [exists |-> TRUE, readable |-> TRUE, entries |-> <<>>, complete |-> FALSE]
Unreadable == [exists |-> TRUE, readable |-> FALSE, entries |-> <<>>, complete |-> FALSE]
FileOf(m) == [exists |-> TRUE, readable |-> TRUE, entries |-> m, complete |-> TRUE]
\* open('module_mappings.json', 'w') leaves the file empty until json.dump
\* has written: an empty file is not JSON.
Truncated == Corrupt

IdleAllowance ==
  /\ total_sessions = 0
  /\ current_missed = 0
  /\ min_percentage = DefaultMinPercentage
  /\ allowance = <<>>

\* pandas' NaN, the value of an empty cell: pd.isna(cell) is cell = NaN
NaN == <<>>

\* A table with no column and no row: no schedule is loaded.
NoTable == [columns |-> <<>>, rows |-> <<>>]

IdleReport ==
  /\ selected_module = ""
  /\ choice = None
  /\ choice_index = 0
  /\ cell_index = 0
  /\ total_lectures = 0
  /\ details = <<>>
  /\ lecture_count = 0
  /\ tutorial_count = 0
  /\ missed_sessions = None
  /\ attendance_percentage = None
  /\ status = ""

IdleRun ==
  /\ all_sessions = <<>>
  /\ next_session = 0
  /\ modules = {}
  /\ unmapped = <<>>
  /\ source = NoTable
  /\ df = NoTable
  /\ module_list = <<>>
  /\ IdleReport

IdleClassify ==
  /\ app = "cli"
  /\ mappings = <<>>
  /\ file = Absent
  /\ pc = "ready"
  /\ session_text = ""
  /\ normalized = ""
  /\ module_code = None
  /\ result = None
  /\ recorded = <<>>
  /\ stage = "start"
  /\ IdleRun

\* A program that has loaded its mappings from the file, before a call of
\* get_module_code_for_session.
InitClassify ==
  /\ IdleAllowance
  /\ app \in {"cli", "ui"}
  /\ mappings \in StorePool
  /\ file \in (IF mappings = <<>> THEN {Absent, FileOf(<<>>)} ELSE {FileOf(mappings)})
  /\ pc = "ready"
  /\ session_text = ""
  /\ normalized = ""
  /\ module_code = None
  /\ result = None
  /\ recorded = <<>>
  /\ stage = "loaded"
  /\ IdleRun

\* (mutant: a code found by the scan is put in mappings under the label's key)
CliCallOnCaching(text) ==
  /\ session_text' = text
  /\ normalized' = IF IsExam(text) THEN "" ELSE NormalizedOf(text)
  /\ module_code' = None
  /\ \E r \in {cli_lookup(text, mappings)} :
       /\ pc' = IF r.ask THEN "prompt" ELSE "returned"
       /\ result' = r.value
       /\ mappings' = IF r.ask \/ r.value = None \/ IsExam(text)
                        THEN mappings
                      ELSE Put(mappings, NormalizedOf(text), r.value[1])
  /\ UNCHANGED <<file, recorded, allowanceVars, app>>

\* NIBM.py get_module_code_for_session(text, mappings), from the call to its
\* first return or to the "New session found" prompt.
CliCallOn(text) ==
  /\ session_text' = text
  /\ normalized' = IF IsExam(text) THEN "" ELSE NormalizedOf(text)
  /\ module_code' = None
  /\ \E r \in {cli_lookup(text, mappings)} :
       /\ pc' = IF r.ask THEN "prompt" ELSE "returned"
       /\ result' = r.value
  /\ UNCHANGED <<mappings, file, recorded, allowanceVars, app>>

\* The call, on any label.
CliCall ==
  /\ app = "cli" /\ pc = "ready"
  /\ \E text \in Labels : CliCallOn(text)
  /\ UNCHANGED <<runVars, reportVars>>

\* One turn of the while True loop: input(...).strip().upper(); an empty
\* entry asks again, any other is put in mappings and save_module_mappings
\* opens the file for writing.
CliPromptInput ==
  /\ app = "cli" /\ pc = "prompt"
  /\ \E entry \in Inputs :
       LET code == str_upper(str_strip(entry))
       IN /\ module_code' = Str(code)
          /\ IF code # ""
               THEN /\ mappings' = Put(mappings, normalized, code)
                    /\ recorded' = Append(recorded, <<normalized, code>>)
                    /\ file' = Truncated
                    /\ pc' = "save"
               ELSE UNCHANGED <<mappings, recorded, file, pc>>
  /\ UNCHANGED <<session_text, normalized, result, allowanceVars, app, runVars, reportVars>>

\* json.dump(mappings, f, indent=2), the file is closed, and the call returns
\* module_code.
CliSave ==
  /\ app = "cli" /\ pc = "save"
  /\ file' = FileOf(mappings)
  /\ result' = module_code
  /\ pc' = "returned"
  /\ UNCHANGED <<mappings, session_text, normalized, module_code, recorded,
                 allowanceVars, app, runVars, reportVars>>

\* attendlessnibm.py get_module_code_for_session
UiCall ==
  /\ app = "ui" /\ pc = "ready"
  /\ \E text \in Labels :
       /\ session_text' = text
       /\ normalized' = IF IsExam(text) THEN "" ELSE NormalizedOf(text)
       /\ result' = ui_get_module_code_for_session(text, mappings)
  /\ pc' = "returned"
  /\ UNCHANGED <<mappings, file, module_code, recorded, allowanceVars, app, runVars, reportVars>>

NextClassify == CliCall \/ CliPromptInput \/ CliSave \/ UiCall

SpecClassify == InitClassify /\ [][NextClassify]_vars

(***************************************************************************)
(* A run of either program, from its start to the list of modules:         *)
(*   NIBM.py          main -> attendance_for_module: load_module_mappings, *)
(*                    get_valid_file_path and load_schedule,               *)
(*                    build_module_list (which prompts and records);       *)
(*   attendlessnibm.py  load_module_mappings at start-up, the schedule     *)
(*                    upload, then main's pass over the loaded schedule:   *)
(*                    load_module_mappings again, get_unmapped_sessions,   *)
(*                    build_module_list.                                   *)
(***************************************************************************)
\* Most sessions a schedule holds.
MaxCells == 3

Schedules == UNION {[1..n -> CellPool] : n \in 0..MaxCells}

\* What module_mappings.json holds when the program starts.
RunStores == {<<>>,
              << <<"dsa", "DSA">> >>,
              << <<"os", "EXAM">> >>,
              << <<"dsa lab", "OS">>, <<"dsa", "DSA">> >>}
FilePool == {Absent, Corrupt, Unreadable} \cup {FileOf(m) : m \in RunStores}

\* The r-th member of a set of indices, ascending.
Nth(S, r) == CHOOSE j \in S : Cardinality({k \in S : k <= j}) = r

\* session = session.strip()
\* if session and session.lower() not in [placeholders]
is_processed(cell) ==
  LET session == str_strip(cell)
  IN session # "" /\ str_lower(session) \notin Placeholders

\* (tabulated once over the cells of the pool)
ProcessedMemo == [c \in CellPool |-> is_processed(c)]
IsProcessed(cell) == ProcessedMemo[cell]

\* build_module_list: if module_code and module_code != "EXAM"
is_module(code) == code # None /\ code[1] # "" /\ code[1] # "EXAM"

\* get_unmapped_sessions: found_mapping for a normalized session
found_mapping(m, n) ==
  HasKey(m, n) \/ \E j \in 1..Len(m) : UiKeyMatches(m[j][1], n)

\* unmapped.append((session, normalized))
unmapped_pair(cell) == <<Stripped(cell), NormalizedOf(Stripped(cell))>>

\* (mutant: only the direct match is looked for)
get_unmapped_sessions_direct_only(sessions, m) ==
  LET Session(j) == Stripped(sessions[j])
      N(j) == NormalizedOf(Session(j))
      appended == {j \in 1..Len(sessions) :
                     /\ IsProcessed(sessions[j])
                     /\ ~IsExam(Session(j))
                     /\ ~HasKey(m, N(j))}
      unique == {j \in appended : \A k \in appended : k < j => N(k) # N(j)}
  IN [r \in 1..Cardinality(unique) |-> unmapped_pair(sessions[Nth(unique, r)])]

\* attendlessnibm.py get_unmapped_sessions(df, mappings): the (session,
\* normalized) pairs appended to unmapped, then one pair kept per normalized
\* form, the first.
get_unmapped_sessions(sessions, m) ==
  LET Session(j) == Stripped(sessions[j])
      N(j) == NormalizedOf(Session(j))
      appended == {j \in 1..Len(sessions) :
                     /\ IsProcessed(sessions[j])
                     /\ ~IsExam(Session(j))
                     /\ ~found_mapping(m, N(j))}
      unique == {j \in appended : \A k \in appended : k < j => N(k) # N(j)}
  IN [r \in 1..Cardinality(unique) |-> unmapped_pair(sessions[Nth(unique, r)])]

\* attendlessnibm.py build_module_list(df, mappings): the modules set
ui_build_module_list(sessions, m) ==
  LET processed == {j \in 1..Len(sessions) : IsProcessed(sessions[j])}
      codes == {ui_get_module_code_for_session(Stripped(sessions[j]), m) : j \in processed}
  IN {c[1] : c \in {x \in codes : is_module(x)}}

\* NIBM.py load_module_mappings: only FileNotFoundError is caught.
cli_load_module_mappings(f) ==
  IF ~f.exists THEN [raised |-> FALSE, value |-> <<>>]
  ELSE IF f.readable /\ f.complete THEN [raised |-> FALSE, value |-> f.entries]
  ELSE [raised |-> TRUE, value |-> <<>>]

\* attendlessnibm.py load_module_mappings: os.path.exists, and any Exception
\* of open or json.load gives {}.
ui_load_module_mappings(f) ==
  IF ~f.exists THEN <<>>
  ELSE IF f.readable /\ f.complete THEN f.entries
  ELSE <<>>

(***************************************************************************)
(* The schedule.  A table is [columns, rows]: columns the column names in  *)
(* order, rows the rows in order, each the sequence of its cells under the *)
(* columns; a cell is Str(text) or NaN.  A source is the table pandas      *)
(* parsed from the first sheet, under whatever column names the sheet has. *)
(***************************************************************************)
Digits == <<"0", "1", "2", "3", "4", "5", "6", "7", "8", "9">>

\* str(i) for an int i >= 0
RECURSIVE str_of_int(_)
str_of_int(i) ==
  IF i < 10 THEN Digits[i + 1] ELSE str_of_int(i \div 10) \o Digits[(i % 10) + 1]

\* s.startswith(prefix)
StartsWith(prefix, s) ==
  Len(s) >= Len(prefix) /\ SubSeq(s, 1, Len(prefix)) = prefix

\* ["Date", "Morning", "Afternoon"] + [f"Extra_{i}" for i in range(n - 3)]
schedule_columns(n) ==
  [k \in 1..n |-> IF k = 1 THEN "Date"
                  ELSE IF k = 2 THEN "Morning"
                  ELSE IF k = 3 THEN "Afternoon"
                  ELSE "Extra_" \o str_of_int(k - 4)]

\* str(x).lower() in ["date", "day"]
HeaderWords == {"date", "day"}

\* load_schedule: [ok, df].  ok is FALSE when an exception was raised inside
\* the try, the error is printed (st.error in attendlessnibm.py) and None is
\* returned: the ValueError of fewer than 3 columns, or the IndexError of
\* df.iloc[0] on a table dropna left without a row.
load_schedule(src) ==
  IF Len(src.columns) < 3 THEN [ok |-> FALSE, df |-> NoTable]
  ELSE LET columns == schedule_columns(Len(src.columns))
           dated == {r \in 1..Len(src.rows) : src.rows[r][1] # NaN}
           kept == [i \in 1..Cardinality(dated) |-> src.rows[Nth(dated, i)]]
       IN IF kept = <<>> THEN [ok |-> FALSE, df |-> NoTable]
          ELSE IF kept[1][1][1] # "" /\ str_lower(kept[1][1][1]) \in HeaderWords
            THEN [ok |-> TRUE, df |-> [columns |-> columns, rows |-> Tail(kept)]]
          ELSE [ok |-> TRUE, df |-> [columns |-> columns, rows |-> kept]]

\* get_all_session_columns(df): the session columns, by their place in
\* df.columns
get_all_session_columns(d) ==
  LET session == {k \in 1..Len(d.columns) :
                    \/ d.columns[k] \in {"Morning", "Afternoon"}
                    \/ StartsWith("Extra_", d.columns[k])}
  IN [i \in 1..Cardinality(session) |-> Nth(session, i)]

\* (mutant: the first session column alone)
concat_first_dropna(d) ==
  LET cols == get_all_session_columns(d)
      At(p) == d.rows[p][cols[1]]
      kept == {p \in 1..Len(d.rows) : At(p) # NaN}
  IN [i \in 1..Cardinality(kept) |-> At(Nth(kept, i))[1]]

\* pd.concat([df[col] for col in session_columns]).dropna().astype(str): the
\* session columns one under the other, the empty cells left out.
concat_dropna(d) ==
  LET cols == get_all_session_columns(d)
      R == Len(d.rows)
      At(p) == d.rows[((p - 1) % R) + 1][cols[((p - 1) \div R) + 1]]
      kept == {p \in 1..(R * Len(cols)) : At(p) # NaN}
  IN [i \in 1..Cardinality(kept) |-> At(Nth(kept, i))[1]]

\* for idx, row in df.iterrows(): for col in session_columns: the cells in
\* the order the loops visit them, numbered from 1.
CellCount(d) == Len(d.rows) * Len(get_all_session_columns(d))
RowOf(d, p) == ((p - 1) \div Len(get_all_session_columns(d))) + 1
ColumnOf(d, p) == get_all_session_columns(d)[((p - 1) % Len(get_all_session_columns(d))) + 1]

\* session_text = str(row[col]) if not pd.isna(row[col]) else ""
cell_text(d, p) ==
  IF d.rows[RowOf(d, p)][ColumnOf(d, p)] = NaN THEN ""
  ELSE d.rows[RowOf(d, p)][ColumnOf(d, p)][1]

\* col.split('_')[1]
split_1(col) ==
  LET under == {i \in 1..Len(col) : Char(col, i) = "_"}
      first == SetMin(under)
      later == {i \in under : i > first}
  IN SubSeq(col, first + 1, IF later = {} THEN Len(col) ELSE SetMin(later) - 1)

\* time_slot, without its emoji
time_slot(col) ==
  IF col = "Morning" THEN "Morning"
  ELSE IF col = "Afternoon" THEN "Afternoon"
  ELSE "Extra_" \o (IF Contains("_", col) THEN split_1(col) ELSE "0")

\* (is_tutorial_or_practical, tabulated once over the cells of the pool)
TutorialMemo == [c \in CellPool \cup {""} |-> is_tutorial_or_practical(c)]
IsTutorial(cell) == TutorialMemo[cell]

\* session_type = "Tutorial/Practical" if is_tut else "Lecture"
session_type(text) == IF IsTutorial(text) THEN "Tutorial/Practical" ELSE "Lecture"

\* What is printed (NIBM.py) or appended to day_sessions, under the day's
\* date (attendlessnibm.py), for a counted cell.
detail(d, p) ==
  [date |-> d.rows[RowOf(d, p)][1][1],
   time_slot |-> time_slot(d.columns[ColumnOf(d, p)]),
   session_text |-> cell_text(d, p),
   session_type |-> session_type(cell_text(d, p))]

\* sum(1 for day in session_details for session in day['sessions']
\*     if session['session_type'] == kind)
count_of_type(session_details, kind) ==
  Cardinality({i \in 1..Len(session_details) : session_details[i].session_type = kind})

\* The dates of the rows of a schedule.
Dates == <<"2025-01-06", "2025-01-07", "2025-01-08", "2025-01-09", "2025-01-10">>
DateOf(r) == Str(Dates[((r - 1) % Len(Dates)) + 1])

\* The sheet that holds the sessions s in n - 1 session columns, column by
\* column, under the header row Day, AM, PM, ...: pandas takes the header
\* row for the column names.
SheetColumns == <<"Day", "AM", "PM", "Evening", "Night">>
SourceOf(s, n) ==
  LET R == (Len(s) + n - 2) \div (n - 1)
  IN [columns |-> SubSeq(SheetColumns, 1, n),
      rows |-> [r \in 1..R |->
                  [k \in 1..n |->
                     IF k = 1 THEN DateOf(r)
                     ELSE IF (k - 2) * R + r <= Len(s) THEN Str(s[(k - 2) * R + r])
                     ELSE NaN]]]

\* The sheets a run is given: of 3 and of 4 columns.
SheetWidths == {3, 4}
RunSources == {SourceOf(s, n) : s \in Schedules, n \in SheetWidths}

\* The characters of codes and entries, in code point order.
CodePoints == " +-.0123456789ABCDEFGHIJKLMNOPQRSTUVWXYZ_abcdefghijklmnopqrstuvwxyz"
Ord(c) == CHOOSE i \in 1..Len(CodePoints) : Char(CodePoints, i) = c

\* a < b for str
RECURSIVE str_lt(_, _)
str_lt(a, b) ==
  IF b = "" THEN FALSE
  ELSE IF a = "" THEN TRUE
  ELSE IF Char(a, 1) = Char(b, 1)
    THEN str_lt(SubSeq(a, 2, Len(a)), SubSeq(b, 2, Len(b)))
  ELSE Ord(Char(a, 1)) < Ord(Char(b, 1))

\* sorted(list(modules))
sorted(S) ==
  [i \in 1..Cardinality(S) |->
     CHOOSE x \in S : Cardinality({y \in S : str_lt(y, x)}) = i - 1]

\* Sheets of 2 to 4 columns and of up to MaxRows rows: a row has a date, the
\* word Date or DAY, or nothing in its first cell, and its place in the
\* sheet shows in its second.
MaxRows == 3
FirstCells == {NaN, Str("2025-01-06"), Str("Date"), Str("DAY")}
RowMarks == <<"DSA", "OS", "DSA Lab", "Holiday Lab", "DSA Mr. Cwik">>
MarkOf(r) == Str(RowMarks[((r - 1) % Len(RowMarks)) + 1])
SheetOf(firsts, n) ==
  [columns |-> SubSeq(SheetColumns, 1, n),
   rows |-> [r \in 1..Len(firsts) |->
               [k \in 1..n |-> IF k = 1 THEN firsts[r]
                               ELSE IF k = 2 THEN MarkOf(r)
                               ELSE NaN]]]
LoadSources ==
  {SheetOf(firsts, n) : firsts \in UNION {[1..r -> FirstCells] : r \in 0..MaxRows},
                        n \in 2..4}

\* (load_schedule and the functions of the table, tabulated once over the
\* sheets of the pools)
LoadMemo == [src \in RunSources \cup LoadSources |-> load_schedule(src)]
Loaded(src) == LoadMemo[src]
Tables == {LoadMemo[src].df : src \in RunSources \cup LoadSources}
SessionsMemo == [d \in Tables |-> concat_dropna(d)]
CellsMemo == [d \in Tables |-> [p \in 1..CellCount(d) |-> cell_text(d, p)]]
DetailsMemo == [d \in Tables |-> [p \in 1..CellCount(d) |-> detail(d, p)]]
Sessions(d) == SessionsMemo[d]
Cells(d) == CellsMemo[d]
Details(d) == DetailsMemo[d]

\* (mutant: any cell with a code is taken for a session of the module)
ui_is_for_any_module(cell, module_name, m) ==
  ui_get_module_code_for_session(cell, m) # None

\* attendlessnibm.py is_for_module(cell, module_name, mappings)
ui_is_for_module(cell, module_name, m) ==
  ui_get_module_code_for_session(cell, m) = Str(module_name)

\* attendlessnibm.py count_lectures_for_module: the cells counted, of the
\* cells in the order of the loops
ui_counted(cells, module_name, m) ==
  {p \in 1..Len(cells) : cells[p] # "" /\ ui_is_for_module(cells[p], module_name, m)}

\* attendlessnibm.py count_lectures_for_module(df, module_name, mappings):
\* total, session_details
session_details_of(all, counted) ==
  [i \in 1..Cardinality(counted) |-> all[Nth(counted, i)]]
count_result(all, counted) ==
  [total |-> Cardinality(counted), session_details |-> session_details_of(all, counted)]
ui_count_lectures_for_module(d, module_name, m) ==
  count_result(Details(d), ui_counted(Cells(d), module_name, m))

\* (count_lectures_for_module of attendlessnibm.py, tabulated once over the
\* tables, the codes and the stores the file can give)
UiStores == {ui_load_module_mappings(f) : f \in FilePool}
UiCountMemo ==
  [d \in Tables |-> [c \in CodePool |-> [m \in UiStores |->
     ui_count_lectures_for_module(d, c, m)]]]
UiCount(d, module_name, m) == UiCountMemo[d][module_name][m]

\* int(s) for a str s: <<n>>, or None where int raises ValueError.  The text
\* is stripped, may carry one sign, and is made of digits, with single
\* underscores between digits.
IsDigit(c) == \E i \in 1..Len(Digits) : Digits[i] = c
DigitValue(c) == (CHOOSE i \in 1..Len(Digits) : Digits[i] = c) - 1

RECURSIVE digits_value(_)
digits_value(s) ==
  IF s = "" THEN 0
  ELSE IF Char(s, Len(s)) = "_" THEN digits_value(SubSeq(s, 1, Len(s) - 1))
  ELSE digits_value(SubSeq(s, 1, Len(s) - 1)) * 10 + DigitValue(Char(s, Len(s)))

py_int(entry) ==
  LET s == str_strip(entry)
      signed == s # "" /\ Char(s, 1) \in {"+", "-"}
      body == IF signed THEN SubSeq(s, 2, Len(s)) ELSE s
      wellformed ==
        /\ body # ""
        /\ \A i \in 1..Len(body) : IsDigit(Char(body, i)) \/ Char(body, i) = "_"
        /\ IsDigit(Char(body, 1)) /\ IsDigit(Char(body, Len(body)))
        /\ ~Contains("__", body)
  IN IF ~wellformed THEN None
     ELSE IF signed /\ Char(s, 1) = "-" THEN <<0 - digits_value(body)>>
     ELSE <<digits_value(body)>>

\* What the operator types at "Choose module number" and at "How many
\* sessions did you miss?".
PromptEntries == {"", "abc", "1.5", "-1", "0", "1", " 2 ", "+3", "4", "1_0"}

\* (int(input(...)), tabulated once over the entries)
IntMemo == [e \in PromptEntries |-> py_int(e)]
IntOf(entry) == IntMemo[entry]

\* get_valid_module_choice: 1 <= choice <= len(modules)
valid_module_choice(c, list) == c # None /\ 1 <= c[1] /\ c[1] <= Len(list)

\* (a prompt that checks only 0 <= missed)
valid_missed_sessions_no_upper(c, total) == c # None /\ 0 <= c[1]

\* get_valid_missed_sessions: 0 <= missed <= total_sessions
valid_missed_sessions(c, total) == c # None /\ 0 <= c[1] /\ c[1] <= total

(***************************************************************************)
(* The report: attended, attendance_percentage, the allowance, the status. *)
(***************************************************************************)
GoodPercentage == 80
WarningPercentage == 75

\* attended = total - missed; attendance_percentage = (attended / total) * 100
attendance_percentage_of(total, m) == FloatMul(100, TrueDiv(total - m, total))

\* f >= n for a double f >= 0 and an int n >= 0
float_ge(f, n) == FloatToInt(f) >= n

\* (mutant: GOOD from 81 up)
status_of_from_81(percentage) ==
  IF float_ge(percentage, GoodPercentage + 1) THEN "GOOD"
  ELSE IF float_ge(percentage, WarningPercentage) THEN "WARNING"
  ELSE "CRITICAL"

\* if attendance_percentage >= 80: ... elif attendance_percentage >= 75: ...
status_of(percentage) ==
  IF float_ge(percentage, GoodPercentage) THEN "GOOD"
  ELSE IF float_ge(percentage, WarningPercentage) THEN "WARNING"
  ELSE "CRITICAL"

\* Largest schedule the allowance is computed for.
MaxTotal == 50

\* (the report, tabulated once over the totals and the missed counts)
ReportMemo ==
  [total \in 1..MaxTotal |-> [m \in 0..total |->
     [percentage |-> attendance_percentage_of(total, m),
      allowance |-> calculate_holiday_allowance(total, m, DefaultMinPercentage),
      status |-> status_of(attendance_percentage_of(total, m))]]]

\* The statements of the report for total sessions, m of them missed.
ReportOn(total, m) ==
  /\ total_sessions' = total
  /\ current_missed' = m
  /\ attendance_percentage' = ReportMemo[total][m].percentage
  /\ allowance' = ReportMemo[total][m].allowance
  /\ status' = ReportMemo[total][m].status
  /\ UNCHANGED min_percentage

Init ==
  /\ IdleAllowance
  /\ app \in {"cli", "ui"}
  /\ file \in FilePool
  /\ mappings = <<>>
  /\ pc = "ready"
  /\ session_text = ""
  /\ normalized = ""
  /\ module_code = None
  /\ result = None
  /\ recorded = <<>>
  /\ stage = "start"
  /\ IdleRun

\* NIBM.py attendance_for_module: mappings = load_module_mappings(); what it
\* raises reaches main's except Exception, which prints "Unexpected error" and
\* the program is over.
CliLoadMappings ==
  /\ app = "cli" /\ stage = "start"
  /\ LET r == cli_load_module_mappings(file)
     IN IF r.raised
          THEN stage' = "unexpected_error" /\ UNCHANGED mappings
          ELSE stage' = "loaded" /\ mappings' = r.value
  /\ UNCHANGED <<allowanceVars, app, file, pc, session_text, normalized, module_code,
                 result, recorded, all_sessions, next_session, modules, unmapped,
                 source, df, module_list, reportVars>>

\* attendlessnibm.py: st.session_state.mappings = load_module_mappings()
UiLoadMappings ==
  /\ app = "ui" /\ stage = "start"
  /\ mappings' = ui_load_module_mappings(file)
  /\ stage' = "loaded"
  /\ UNCHANGED <<allowanceVars, app, file, pc, session_text, normalized, module_code,
                 result, recorded, all_sessions, next_session, modules, unmapped,
                 source, df, module_list, reportVars>>

\* load_schedule on a sheet, and the first statements of build_module_list
\* and get_unmapped_sessions, which lay the session columns end to end.  A
\* sheet load_schedule returns None for ends the run (NIBM.py returns,
\* attendlessnibm.py shows the error and stops).
LoadOn(src) ==
  /\ source' = src
  /\ IF Loaded(src).ok
       THEN /\ df' = Loaded(src).df
            /\ all_sessions' = Sessions(df')
            /\ next_session' = 1
            /\ stage' = "build"
       ELSE /\ stage' = "exit"
            /\ UNCHANGED <<df, all_sessions, next_session>>
  /\ UNCHANGED <<allowanceVars, classifyVars, modules, unmapped, module_list, reportVars>>

\* The schedule is chosen and load_schedule is called on it.
LoadSchedule ==
  /\ stage = "loaded"
  /\ \E src \in RunSources : LoadOn(src)

\* No file is chosen: nothing more is done.
NoSchedule ==
  /\ stage = "loaded"
  /\ stage' = "exit"
  /\ UNCHANGED <<allowanceVars, classifyVars, all_sessions, next_session, modules, unmapped,
                 source, df, module_list, reportVars>>

\* NIBM.py build_module_list, a session the if leaves out.
BuildSkip ==
  /\ app = "cli" /\ stage = "build" /\ pc = "ready"
  /\ next_session <= Len(all_sessions)
  /\ ~IsProcessed(all_sessions[next_session])
  /\ next_session' = next_session + 1
  /\ UNCHANGED <<allowanceVars, classifyVars, stage, all_sessions, modules, unmapped,
                 source, df, module_list, reportVars>>

\* NIBM.py build_module_list: get_module_code_for_session(session, mappings)
BuildCall ==
  /\ app = "cli" /\ stage = "build" /\ pc = "ready"
  /\ next_session <= Len(all_sessions)
  /\ IsProcessed(all_sessions[next_session])
  /\ CliCallOn(Stripped(all_sessions[next_session]))
  /\ UNCHANGED <<runVars, reportVars>>

\* NIBM.py build_module_list: the call has returned, modules.add(module_code)
\* unless it is None, empty or "EXAM", and the loop goes on.
BuildReturn ==
  /\ app = "cli" /\ stage = "build" /\ pc = "returned"
  /\ modules' = IF is_module(result) THEN modules \cup {result[1]} ELSE modules
  /\ next_session' = next_session + 1
  /\ pc' = "ready"
  /\ UNCHANGED <<allowanceVars, app, mappings, file, session_text, normalized,
                 module_code, result, recorded, stage, all_sessions, unmapped,
                 source, df, module_list, reportVars>>

\* NIBM.py: build_module_list returns; "No modules found" ends the run,
\* otherwise the modules are listed for the choice.
BuildDone ==
  /\ app = "cli" /\ stage = "build" /\ pc = "ready"
  /\ next_session > Len(all_sessions)
  /\ module_list' = sorted(modules)
  /\ stage' = IF module_list' = <<>> THEN "exit" ELSE "choose"
  /\ UNCHANGED <<allowanceVars, classifyVars, all_sessions, next_session, modules, unmapped,
                 source, df, reportVars>>

\* attendlessnibm.py main, with a schedule loaded: mappings are loaded again,
\* the unmapped sessions are listed and the module list is built.
UiProcess ==
  /\ app = "ui" /\ stage = "build"
  /\ mappings' = ui_load_module_mappings(file)
  /\ unmapped' = get_unmapped_sessions(all_sessions, mappings')
  /\ modules' = ui_build_module_list(all_sessions, mappings')
  /\ module_list' = sorted(modules')
  /\ stage' = IF module_list' = <<>> THEN "exit" ELSE "choose"
  /\ next_session' = Len(all_sessions) + 1
  /\ UNCHANGED <<allowanceVars, app, file, pc, session_text, normalized, module_code,
                 result, recorded, all_sessions, source, df, reportVars>>

\* NIBM.py attendance_for_module: one turn of get_valid_module_choice's while
\* True loop.  An entry int() rejects, or a number out of range, prints a
\* message and the loop asks again; a valid one is returned less 1, and
\* selected_module = modules[choice_index], the count begins.
ChooseModule ==
  /\ app = "cli" /\ stage = "choose"
  /\ \E entry \in PromptEntries :
       /\ choice' = IntOf(entry)
       /\ IF valid_module_choice(choice', module_list)
            THEN /\ choice_index' = choice'[1] - 1
                 /\ selected_module' = module_list[choice_index' + 1]
                 /\ stage' = "count"
                 /\ cell_index' = 1
            ELSE UNCHANGED <<choice_index, selected_module, stage, cell_index>>
  /\ UNCHANGED <<allowanceVars, classifyVars, all_sessions, next_session, modules,
                 unmapped, df, source, module_list, total_lectures, details,
                 lecture_count, tutorial_count, missed_sessions, attendance_percentage, status>>

\* count_lectures_for_module and show_session_breakdown: a cell that is
\* empty, if session_text: is false.
CountSkip ==
  /\ app = "cli" /\ stage \in {"count", "breakdown"} /\ pc = "ready"
  /\ cell_index <= Len(Cells(df))
  /\ Cells(df)[cell_index] = ""
  /\ cell_index' = cell_index + 1
  /\ UNCHANGED <<allowanceVars, classifyVars, runVars, selected_module, choice,
                 choice_index, total_lectures, details, lecture_count,
                 tutorial_count, missed_sessions, attendance_percentage, status>>

\* is_for_module(session_text, module_name, mappings) calls
\* get_module_code_for_session on the text of the cell.
CountCall ==
  /\ app = "cli" /\ stage \in {"count", "breakdown"} /\ pc = "ready"
  /\ cell_index <= Len(Cells(df))
  /\ Cells(df)[cell_index] # ""
  /\ CliCallOn(Cells(df)[cell_index])
  /\ UNCHANGED <<runVars, reportVars>>

\* The call has returned: session_match is session_module == module_name.
\* count_lectures_for_module adds 1 to total and prints the session;
\* show_session_breakdown adds 1 to tutorial_count or to lecture_count.
CountReturn ==
  /\ app = "cli" /\ stage \in {"count", "breakdown"} /\ pc = "returned"
  /\ IF result = Str(selected_module) /\ stage = "count"
       THEN /\ total_lectures' = total_lectures + 1
            /\ details' = Append(details, Details(df)[cell_index])
       ELSE UNCHANGED <<total_lectures, details>>
  /\ IF result = Str(selected_module) /\ stage = "breakdown"
       THEN IF IsTutorial(session_text)
              THEN tutorial_count' = tutorial_count + 1 /\ UNCHANGED lecture_count
              ELSE lecture_count' = lecture_count + 1 /\ UNCHANGED tutorial_count
       ELSE UNCHANGED <<lecture_count, tutorial_count>>
  /\ cell_index' = cell_index + 1
  /\ pc' = "ready"
  /\ UNCHANGED <<allowanceVars, app, mappings, file, session_text, normalized,
                 module_code, result, recorded, runVars, selected_module, choice,
                 choice_index, missed_sessions, attendance_percentage, status>>

\* count_lectures_for_module returns total: "No sessions found for module"
\* ends the run, otherwise show_session_breakdown begins.
CountDone ==
  /\ app = "cli" /\ stage = "count" /\ pc = "ready"
  /\ cell_index > Len(Cells(df))
  /\ IF total_lectures = 0
       THEN stage' = "exit" /\ UNCHANGED cell_index
       ELSE stage' = "breakdown" /\ cell_index' = 1
  /\ UNCHANGED <<allowanceVars, classifyVars, all_sessions, next_session, modules,
                 unmapped, df, source, module_list, selected_module, choice,
                 choice_index, total_lectures, details, lecture_count,
                 tutorial_count, missed_sessions, attendance_percentage, status>>

\* show_session_breakdown has printed its counts; the missed prompt is next.
BreakdownDone ==
  /\ app = "cli" /\ stage = "breakdown" /\ pc = "ready"
  /\ cell_index > Len(Cells(df))
  /\ stage' = "missed"
  /\ UNCHANGED <<allowanceVars, classifyVars, all_sessions, next_session, modules,
                 unmapped, df, source, module_list, reportVars>>

\* One turn of get_valid_missed_sessions' while True loop.
MissedInput ==
  /\ app = "cli" /\ stage = "missed"
  /\ \E entry \in PromptEntries :
       /\ missed_sessions' = IntOf(entry)
       /\ stage' = IF valid_missed_sessions(missed_sessions', total_lectures)
                     THEN "report" ELSE "missed"
  /\ UNCHANGED <<allowanceVars, classifyVars, all_sessions, next_session, modules,
                 unmapped, df, source, module_list, selected_module, choice,
                 choice_index, cell_index, total_lectures, details, lecture_count,
                 tutorial_count, attendance_percentage, status>>

\* NIBM.py attendance_for_module, from attended = total_lectures - missed to
\* the status printed.
CliReport ==
  /\ app = "cli" /\ stage = "report"
  /\ ReportOn(total_lectures, missed_sessions[1])
  /\ stage' = "done"
  /\ UNCHANGED <<classifyVars, all_sessions, next_session, modules, unmapped, df,
                 source, module_list, selected_module, choice, choice_index,
                 cell_index, total_lectures, details, lecture_count,
                 tutorial_count, missed_sessions>>

\* attendlessnibm.py main: a module is selected in the selectbox and
\* count_lectures_for_module is called for it; with no session counted
\* nothing more is shown, otherwise the counts are shown and the number of
\* missed sessions is asked for.
UiSelect ==
  /\ app = "ui" /\ stage = "choose"
  /\ \E i \in 1..Len(module_list) : selected_module' = module_list[i]
  /\ details' = UiCount(df, selected_module', mappings).session_details
  /\ total_lectures' = UiCount(df, selected_module', mappings).total
  /\ lecture_count' = count_of_type(details', "Lecture")
  /\ tutorial_count' = count_of_type(details', "Tutorial/Practical")
  /\ cell_index' = Len(Cells(df)) + 1
  /\ stage' = IF total_lectures' > 0 THEN "missed" ELSE "exit"
  /\ UNCHANGED <<allowanceVars, classifyVars, all_sessions, next_session, modules,
                 unmapped, df, source, module_list, choice, choice_index, missed_sessions,
                 attendance_percentage, status>>

\* attendlessnibm.py main: the number widget holds a value from 0 to
\* total_sessions and "Calculate Attendance" is pressed.
UiReport ==
  /\ app = "ui" /\ stage = "missed"
  /\ \E m \in 0..total_lectures :
       /\ missed_sessions' = <<m>>
       /\ ReportOn(total_lectures, m)
  /\ stage' = "done"
  /\ UNCHANGED <<classifyVars, all_sessions, next_session, modules, unmapped, df,
                 source, module_list, selected_module, choice, choice_index,
                 cell_index, total_lectures, details, lecture_count,
                 tutorial_count>>

Next ==
  \/ CliLoadMappings \/ UiLoadMappings \/ LoadSchedule \/ NoSchedule
  \/ BuildSkip \/ BuildCall \/ CliPromptInput \/ CliSave \/ BuildReturn \/ BuildDone
  \/ UiProcess
  \/ ChooseModule \/ CountSkip \/ CountCall \/ CountReturn \/ CountDone
  \/ BreakdownDone \/ MissedInput \/ CliReport
  \/ UiSelect \/ UiReport

Spec == Init /\ [][Next]_vars

(***************************************************************************)
(* calculate_holiday_allowance as its callers call it.                     *)
(***************************************************************************)
\* The caller holds a session count and a missed count within it (the missed
\* prompt and the number widget both keep 0 <= missed <= total).  allowance
\* is <<>> until the function has returned.
InitAllowance ==
  /\ total_sessions \in 0..MaxTotal
  /\ current_missed \in 0..total_sessions
  /\ min_percentage = DefaultMinPercentage
  /\ allowance = <<>>
  /\ IdleClassify

\* A call with the default percentage, as both programs make it.
CallDefault ==
  /\ allowance = <<>>
  /\ allowance' = calculate_holiday_allowance(total_sessions, current_missed,
                                              DefaultMinPercentage)
  /\ UNCHANGED <<total_sessions, current_missed, min_percentage, classifyVars, runVars, reportVars>>

\* A call that passes min_percentage.
CallWithPercentage ==
  /\ allowance = <<>>
  /\ \E pct \in 0..100 :
       /\ min_percentage' = pct
       /\ allowance' = calculate_holiday_allowance(total_sessions, current_missed, pct)
  /\ UNCHANGED <<total_sessions, current_missed, classifyVars, runVars, reportVars>>

NextAllowance == CallDefault \/ CallWithPercentage

SpecAllowance == InitAllowance /\ [][NextAllowance]_vars

\* C1: with the default 80%, a positive allowance can be used up: after
\* missing allowance more sessions attendance is still at least 80% of total.
C1_AllowanceKeepsThreshold ==
  (allowance # <<>> /\ min_percentage = DefaultMinPercentage
      /\ total_sessions >= 1 /\ allowance[1] > 0)
    => (total_sessions - current_missed - allowance[1]) * 100 >= 80 * total_sessions

\* C2: min_sessions_needed is floor(total * minPercent / 100), the allowance is
\* max(0, (total - min_sessions_needed) - missed), and the two worked examples.
C2_Examples ==
  /\ calculate_holiday_allowance(20, 2, DefaultMinPercentage) = <<2, 16>>
  /\ calculate_holiday_allowance(20, 5, DefaultMinPercentage)[1] = 0
C2_MinNeededIsFloor ==
  /\ allowance # <<>> =>
       /\ allowance[2] = (total_sessions * min_percentage) \div 100
       /\ allowance[1] = Max(0, (total_sessions - allowance[2]) - current_missed)
  /\ C2_Examples

(***************************************************************************)
(* Claims about the classifier, under SpecClassify.                        *)
(***************************************************************************)
\* The label of the call in progress, read as the specification words it.
HasExamKeyword(text) ==
  \E k \in {"examination", "exam", "coursework", "viva", "cw", "course work"} :
    Contains(k, str_lower(text))
\* (tabulated over the labels, like the classifier's own reading of them)
ExamKeywordLabels == {l \in MemoLabels : HasExamKeyword(l)}
LabelHasExamKeyword == session_text \in ExamKeywordLabels
LabelKey == NormalizedOf(session_text)
IsPlaceholderKey(n) == n = "" \/ n \in {"inauguration", "holiday", "break", "lunch", "nan"}
Called == pc # "ready"

\* C3: a label whose lowercased raw text contains an exam keyword classifies
\* as EXAM at once, whatever the store holds and whatever normalization
\* would strip from the label.
C3_ExamKeywordGivesExam ==
  (Called /\ LabelHasExamKeyword)
    => (pc = "returned" /\ result = Str("EXAM") /\ module_code = None)

\* C3 witness: the keyword sits only in the instructor name that
\* normalization strips, and the store has the normalized label as a key.
C3_Witness ==
  /\ pc = "returned" /\ result = Str("EXAM")
  /\ ~HasExamKeyword(LabelKey)
  /\ HasKey(mappings, LabelKey) /\ Get(mappings, LabelKey) # "EXAM"

\* Indices of the keys that the substring rule relates to n.
SubstringHits(m, n) ==
  {i \in 1..Len(m) : Contains(str_lower(m[i][1]), n) \/ Contains(n, str_lower(m[i][1]))}
\* Indices of the keys equal to n once spaces are removed.
SpacelessHits(m, n) ==
  {i \in 1..Len(m) : RemoveSpaces(str_lower(m[i][1])) = RemoveSpaces(n)}
\* The call in progress is one the fallback decides: the label is no exam, no
\* placeholder, and its normalized form is no key of the store.
FallbackCase ==
  /\ Called /\ module_code = None
  /\ ~LabelHasExamKeyword
  /\ ~IsPlaceholderKey(LabelKey)
  /\ ~HasKey(mappings, LabelKey)

\* C5 as stated: in both programs the code is that of the first key, in
\* insertion order, that the substring rule relates to the normalized label,
\* and no other rule yields a code.
C5_SubstringFallbackOnly ==
  FallbackCase =>
    LET hits == SubstringHits(mappings, LabelKey)
    IN IF hits # {} THEN pc = "returned" /\ result = Str(mappings[SetMin(hits)][2])
       ELSE IF app = "cli" THEN pc = "prompt" ELSE pc = "returned" /\ result = None

\* C5 amended: the command-line program does exactly that; in the Streamlit
\* program a key also matches when it equals the normalized label once the
\* spaces are removed, and the first key matching by either rule gives the code.
C5_FallbackFirstMatch ==
  FallbackCase =>
    LET hits == SubstringHits(mappings, LabelKey) \cup
                  (IF app = "ui" THEN SpacelessHits(mappings, LabelKey) ELSE {})
    IN IF hits # {} THEN pc = "returned" /\ result = Str(mappings[SetMin(hits)][2])
       ELSE IF app = "cli" THEN pc = "prompt" /\ result = None
       ELSE pc = "returned" /\ result = None

\* C5 witness: the example of the specification, with a second matching key
\* of another code behind the first.
C5_Witness ==
  /\ pc = "returned"
  /\ LabelKey = "data structures and algorithms"
  /\ mappings = << <<"data structures", "DSA">>, <<"data", "OS">> >>
  /\ result = Str("DSA")

\* C9: the substring fallback never yields EXAM for a label without an exam
\* keyword, whatever the store holds.
C9_FallbackNeverExam ==
  (FallbackCase /\ pc = "returned") => result # Str("EXAM")

NoExamValue ==
  /\ \A i \in 1..Len(mappings) : mappings[i][2] # "EXAM"
  /\ \A i \in 1..Len(file.entries) : file.entries[i][2] # "EXAM"

\* C10: from a store without EXAM values no step writes one, in memory or in
\* the file, whatever the operator enters.
C10_RecordNeverWritesExam == [][NoExamValue => NoExamValue']_vars

\* C7: the file always holds a whole store, the one before the latest record
\* or the one after it, and the store in memory once the record has returned.
C7_FileAlwaysWhole ==
  /\ file.exists =>
       /\ file.complete
       /\ \/ file.entries = mappings
          \/ pc = "save" /\ file.entries = SubSeq(mappings, 1, Len(mappings) - 1)
  /\ (pc = "returned" /\ module_code # None) => file = FileOf(mappings)

(***************************************************************************)
(* Claims about a run, under Spec.                                         *)
(***************************************************************************)
\* The codes recorded for a key during this run.
RecordedCodes(key) ==
  {recorded[j][2] : j \in {k \in 1..Len(recorded) : recorded[k][1] = key}}
\* A call of the command-line classifier has returned.
CliReturned == app = "cli" /\ pc = "returned"
SessionAt(j) == Stripped(all_sessions[j])

\* C4 as stated: once record(key, code) has been done, the classification of
\* any label whose normalized lowercased form is key returns code.
C4_RecordedKeyGivesCode ==
  CliReturned => \A c \in RecordedCodes(LabelKey) : result = Str(c)

\* C4 amended: that holds for every label that contains no exam keyword (a
\* label with one classifies as EXAM before the store is looked at).
C4_RecordedKeyGivesCodeUnlessExam ==
  (CliReturned /\ ~LabelHasExamKeyword)
    => \A c \in RecordedCodes(LabelKey) : result = Str(c)

\* C4 witness: a later call, on a label of the recorded key, answered from the
\* store, which held another mapping before the record.
C4_Witness ==
  /\ CliReturned /\ module_code = None
  /\ recorded = << <<LabelKey, "DSA">> >>
  /\ Len(mappings) > 1
  /\ next_session = 2 /\ SessionAt(1) # session_text
  /\ result = Str("DSA")

\* The label has no code for lack of a match: it is no exam and no
\* placeholder, its normalized form is no key of the store m, and no key of
\* m is related to it by the substring rule.
Unresolvable(text, m) ==
  /\ ~HasExamKeyword(text)
  /\ ~IsPlaceholderKey(NormalizedOf(text))
  /\ ~HasKey(m, NormalizedOf(text))
  /\ SubstringHits(m, NormalizedOf(text)) = {}
\* The Streamlit classifier returns no code for the label, and not because the
\* label is a placeholder.
UiNoMatch(text, m) ==
  /\ ui_get_module_code_for_session(text, m) = None
  /\ ~IsPlaceholderKey(NormalizedOf(text))
\* The Streamlit program has been over the schedule.
UiProcessed == app = "ui" /\ stage \in {"choose", "exit"} /\ next_session > 0

\* The command-line half of C6: a prompt is for an unresolvable label only,
\* and while it lasts every entry so far was empty and nothing is recorded or
\* returned; what is being saved is a non-empty entry, put in the store under
\* the normalized label; a classification that returns for a label that is no
\* exam and no placeholder returns a code, which is the operator's entry, by
\* then in the store and in the file, when the operator was asked, and the
\* code of the exact or of the first related key otherwise.
C6_CliSurfaced ==
  /\ (app = "cli" /\ pc = "prompt") =>
       /\ Unresolvable(session_text, mappings)
       /\ module_code \in {None, Str("")} /\ result = None
       /\ RecordedCodes(normalized) = {}
  /\ (app = "cli" /\ pc = "save") =>
       /\ module_code \notin {None, Str("")}
       /\ HasKey(mappings, normalized) /\ Str(Get(mappings, normalized)) = module_code
       /\ recorded # <<>> /\ recorded[Len(recorded)] = <<normalized, module_code[1]>>
  /\ (CliReturned /\ ~LabelHasExamKeyword /\ ~IsPlaceholderKey(LabelKey)) =>
       IF module_code # None
         THEN /\ module_code # Str("") /\ result = module_code
              /\ HasKey(mappings, LabelKey) /\ Str(Get(mappings, LabelKey)) = result
              /\ file = FileOf(mappings)
              /\ recorded # <<>> /\ recorded[Len(recorded)] = <<LabelKey, result[1]>>
         ELSE IF HasKey(mappings, LabelKey) THEN result = Str(Get(mappings, LabelKey))
         ELSE /\ SubstringHits(mappings, LabelKey) # {}
              /\ result = Str(mappings[SetMin(SubstringHits(mappings, LabelKey))][2])
C6_UiSurfaced ==
  UiProcessed =>
    /\ \A j \in 1..Len(all_sessions) :
         UiNoMatch(SessionAt(j), mappings) =>
           \E r \in 1..Len(unmapped) :
             /\ unmapped[r][2] = NormalizedOf(SessionAt(j))
             /\ \E k \in 1..j :
                  /\ unmapped[r][1] = SessionAt(k)
                  /\ \A h \in 1..(k - 1) :
                       UiNoMatch(SessionAt(h), mappings)
                         => NormalizedOf(SessionAt(h)) # unmapped[r][2]
    /\ \A r \in 1..Len(unmapped) :
         /\ \E j \in 1..Len(all_sessions) :
              unmapped[r] = <<SessionAt(j), NormalizedOf(SessionAt(j))>>
         /\ ui_get_module_code_for_session(unmapped[r][1], mappings) = None
         /\ \A q \in 1..Len(unmapped) : q # r => unmapped[q][2] # unmapped[r][2]

C8_LoadNeverFails ==
  /\ stage # "unexpected_error"
  /\ (stage = "loaded" /\ ~(file.exists /\ file.readable /\ file.complete))
       => mappings = <<>>

(***************************************************************************)
(* The count, the prompts and the report.                                  *)
(***************************************************************************)
\* The code get_module_code_for_session gives the p-th cell of the table
\* under the mappings as they are; None for a cell the operator would be
\* asked about.
Classified(p) ==
  IF app = "cli" THEN cli_lookup(Cells(df)[p], mappings).value
  ELSE ui_get_module_code_for_session(Cells(df)[p], mappings)

\* The cells among the first k, in the order of the loops, whose code is the
\* selected module.
ModuleCells(k) == {p \in 1..k : Classified(p) = Str(selected_module)}

\* count_lectures_for_module has returned; show_session_breakdown has too
\* (attendlessnibm.py takes the two counts from session_details at once).
CountFinished ==
  /\ selected_module # ""
  /\ stage \in {"breakdown", "missed", "report", "done", "exit"}
BreakdownFinished ==
  /\ selected_module # ""
  /\ stage \in {"missed", "report", "done"} \/ (app = "ui" /\ stage = "exit")

\* C11: the count of a module is the number of cells, over all rows and all
\* session columns, whose classification is that module: while the loops
\* run total is the number of such cells among the cells passed, at the end
\* it is their number in the table; there is one detail per counted cell, in
\* order, each of a cell whose code is the module (never EXAM, no code, or
\* another module), and the Lecture and Tutorial/Practical counts add up to
\* total.
C11_CountIsTheModuleCells ==
  /\ selected_module # "EXAM"
  /\ (stage = "count" /\ pc = "ready") =>
       total_lectures = Cardinality(ModuleCells(cell_index - 1))
  /\ CountFinished =>
       /\ total_lectures = Cardinality(ModuleCells(Len(Cells(df))))
       /\ Len(details) = total_lectures
       /\ \A i \in 1..Len(details) :
            details[i] = Details(df)[Nth(ModuleCells(Len(Cells(df))), i)]
  /\ BreakdownFinished =>
       /\ lecture_count = count_of_type(details, "Lecture")
       /\ tutorial_count = count_of_type(details, "Tutorial/Practical")
       /\ lecture_count + tutorial_count = total_lectures

\* A count of two sessions, a lecture and a tutorial, one of them in an
\* Extra column, in a table with a cell of another kind.
C11_Witness ==
  /\ BreakdownFinished
  /\ total_lectures = 2 /\ lecture_count = 1 /\ tutorial_count = 1
  /\ \E p \in 1..Len(Cells(df)) : Cells(df)[p] # "" /\ p \notin ModuleCells(Len(Cells(df)))
  /\ \E i \in 1..Len(details) : details[i].time_slot = "Extra_0"

\* The labels that are a placeholder once trimmed and lowercased, and the
\* labels whose normalized form is empty.
PlaceholderLabels ==
  {l \in MemoLabels :
     str_lower(str_strip(l)) \in {"inauguration", "holiday", "break", "lunch", "nan"}}
EmptyFormLabels == {l \in MemoLabels : normalize_session_text(l) = ""}

\* The call returned no code, and the operator was not asked.
SkipReturned == pc = "returned" /\ result = None /\ module_code = None

\* C12 as stated: a call on a placeholder label, or on a label whose
\* normalized form is empty, returns no code without asking the operator,
\* whatever the store holds.
C12_PlaceholderOrEmptyIsSkipped ==
  (Called /\ session_text \in PlaceholderLabels \cup EmptyFormLabels) => SkipReturned

\* C12, amended: the same for a placeholder label and for a label with an
\* empty normalized form that carries no exam keyword.
C12_PlaceholderOrEmptyIsSkippedUnlessExam ==
  (Called /\ session_text \in PlaceholderLabels \cup (EmptyFormLabels \ ExamKeywordLabels))
    => SkipReturned

\* A placeholder in capitals and spaces is skipped although the store has
\* entries, and so is a label normalization empties, which every key of the
\* store contains.
C12_Witness ==
  /\ SkipReturned /\ mappings # <<>>
  /\ session_text \in (EmptyFormLabels \ PlaceholderLabels) \ ExamKeywordLabels
  /\ \A i \in 1..Len(mappings) : Contains(LabelKey, str_lower(mappings[i][1]))

(***************************************************************************)
(* normalize_session_text on its own: applied to a label, then to what it  *)
(* returned.                                                               *)
(***************************************************************************)
\* Labels with several qualifiers, instructors or trailing dashes.
RepeatedSuffixLabels ==
  {"DSA Tutorial Lab", "DSA - Lab - Tutorial", "DSA - Dr Smith - Mr Jones",
   "DSA Mr Smith Dr Jones", "DSA - -", "DSA --", "OS Lab - Dr Smith", "OS - Tute -"}
NormalizeInputs == Labels \cup RepeatedSuffixLabels

InitNormalize ==
  /\ IdleAllowance
  /\ app \in {"cli", "ui"}
  /\ mappings = <<>>
  /\ file = Absent
  /\ pc = "ready"
  /\ session_text \in NormalizeInputs
  /\ normalized = ""
  /\ module_code = None
  /\ result = None
  /\ recorded = <<>>
  /\ stage = "loaded"
  /\ IdleRun

\* normalized = normalize_session_text(session_text)
Normalize ==
  /\ pc = "ready"
  /\ normalized' = normalize_session_text(session_text)
  /\ pc' = "normalized"
  /\ UNCHANGED <<allowanceVars, app, mappings, file, session_text, module_code, result,
                 recorded, runVars, reportVars>>

\* normalize_session_text(normalized)
NormalizeAgain ==
  /\ pc = "normalized"
  /\ result' = Str(normalize_session_text(normalized))
  /\ pc' = "normalized again"
  /\ UNCHANGED <<allowanceVars, app, mappings, file, session_text, normalized,
                 module_code, recorded, runVars, reportVars>>

NextNormalize == Normalize \/ NormalizeAgain

SpecNormalize == InitNormalize /\ [][NextNormalize]_vars

\* C13: normalization is idempotent: normalizing what normalization returned
\* returns it unchanged, also for labels with several trailing qualifiers,
\* instructors or dashes.
C13_NormalizeIsIdempotent ==
  pc = "normalized again" => result = Str(normalized)

\* The store holds the keys "os" and "operating systems", in either order,
\* and the call, in which the operator has entered nothing, is on a label
\* without exam keyword that normalizes to "operating systems".
OsTie ==
  /\ Called /\ module_code = None
  /\ Len(mappings) = 2 /\ Keys(mappings) = {"os", "operating systems"}
  /\ ~LabelHasExamKeyword
  /\ LabelKey = "operating systems"

\* The code the store holds under key.
CodeUnder(key) == mappings[CHOOSE i \in 1..Len(mappings) : mappings[i][1] = key][2]

SubstringTie ==
  /\ Called /\ module_code = None
  /\ Len(mappings) = 2
  /\ ~LabelHasExamKeyword /\ ~IsPlaceholderKey(LabelKey)
  /\ ~HasKey(mappings, LabelKey)
  /\ \A i \in 1..2 : Contains(str_lower(mappings[i][1]), LabelKey)

InitLoad ==
  /\ IdleAllowance
  /\ app \in {"cli", "ui"}
  /\ mappings = <<>>
  /\ file = Absent
  /\ pc = "ready"
  /\ session_text = ""
  /\ normalized = ""
  /\ module_code = None
  /\ result = None
  /\ recorded = <<>>
  /\ stage = "loaded"
  /\ IdleRun

\* load_schedule is called on a sheet.
LoadSheet ==
  /\ stage = "loaded"
  /\ \E src \in LoadSources : LoadOn(src)

SpecLoad == InitLoad /\ [][LoadSheet]_vars

\* The rows of a sheet that have a Date, in the order of the sheet, less the
\* first of them when its Date is the word date or day in any case.
HasDate(row) == row[1] # NaN
DatedRows(src) == SelectSeq(src.rows, HasDate)
IsHeaderRow(row) == str_lower(row[1][1]) \in {"date", "day"}
RowsToLoad(src) ==
  IF DatedRows(src) # <<>> /\ IsHeaderRow(DatedRows(src)[1])
    THEN Tail(DatedRows(src))
  ELSE DatedRows(src)

\* C15: for a sheet of at least 3 columns and any number of rows load_schedule
\* returns a table, whose rows are the rows of the sheet that have a Date, in
\* order, less a leading header row; for a sheet of fewer than 3 columns it
\* returns an error and no table.
C15_LoadGivesTheDatedRows ==
  stage # "loaded" =>
     IF Len(source.columns) >= 3
       THEN stage = "build" /\ df.rows = RowsToLoad(source)
       ELSE stage = "exit" /\ df = NoTable

(***************************************************************************)
(* The two prompts of NIBM.py.                                             *)
(***************************************************************************)
\* Every variable but choice, and every variable but missed_sessions
butChoice ==
  <<allowanceVars, classifyVars, runVars, selected_module, choice_index,
    cell_index, total_lectures, details, lecture_count, tutorial_count,
    missed_sessions, attendance_percentage, status>>
butMissed ==
  <<allowanceVars, classifyVars, runVars, selected_module, choice, choice_index,
    cell_index, total_lectures, details, lecture_count, tutorial_count,
    attendance_percentage, status>>

ChoiceReturned ==
  app = "cli" /\ stage \in {"count", "breakdown", "missed", "report", "done"}
MissedReturned == app = "cli" /\ stage \in {"report", "done"}

\* What the prompts have returned is in range, and the report is on an
\* attended count that is not negative.
PromptsReturnInRange ==
  /\ ChoiceReturned =>
       /\ 0 <= choice_index /\ choice_index < Len(module_list)
       /\ selected_module = module_list[choice_index + 1]
  /\ MissedReturned =>
       /\ missed_sessions # None
       /\ 0 <= missed_sessions[1] /\ missed_sessions[1] <= total_lectures
  /\ (app = "cli" /\ stage = "done") =>
       /\ total_sessions = total_lectures
       /\ current_missed = missed_sessions[1]
       /\ total_sessions - current_missed >= 0

\* An entry that is not a number in range leaves the program at the prompt,
\* with nothing changed but the entry read.
InvalidEntryAsksAgain ==
  /\ (app = "cli" /\ stage = "choose"
        /\ ~(choice' # None /\ choice'[1] \in 1..Len(module_list)))
       => (stage' = "choose" /\ UNCHANGED butChoice)
  /\ (app = "cli" /\ stage = "missed"
        /\ ~(missed_sessions' # None /\ missed_sessions'[1] \in 0..total_lectures))
       => (stage' = "missed" /\ UNCHANGED butMissed)

\* C16: the module-choice prompt returns only an index i with
\* 0 <= i < number of modules, the missed-sessions prompt returns only m with
\* 0 <= m <= total, every entry that is out of range or not a number leads
\* back to the same prompt with no other state changed, and the report is
\* computed only with attended = total - m >= 0.
C16_InvalidInputIsAskedAgain ==
  []PromptsReturnInRange /\ [][InvalidEntryAsksAgain]_vars

\* An entry above the total has been refused after the second module of the
\* list was chosen.
C16_Witness ==
  /\ app = "cli" /\ stage = "missed"
  /\ choice_index = 1
  /\ missed_sessions = <<4>> /\ total_lectures < 4

(***************************************************************************)
(* What changes the mapping store.                                         *)
(***************************************************************************)
\* The record step of NIBM.py: from the "New session found" prompt to the
\* return that follows the save.
RecordStep == pc \in {"prompt", "save"}
StoreLeftAlone == mappings' = mappings /\ file' = file

\* C17: once the mappings are loaded, only the record step changes the store
\* in memory or the file: a call of the classifier that returns without
\* asking (exam, placeholder, exact or substring match), counting sessions,
\* listing the modules in the UI and computing the allowance leave both as
\* they are.
C17_OnlyTheRecordStepChangesTheStore ==
  [][(stage # "start" /\ ~RecordStep) => StoreLeftAlone]_vars

\* A run of NIBM.py that recorded a mapping, counted, and reported with the
\* store and the file as the record step left them.
C17_Witness ==
  /\ app = "cli" /\ stage = "done"
  /\ Len(recorded) = 1
  /\ mappings = <<recorded[1]>>
  /\ file = FileOf(mappings)
  /\ total_lectures >= 2

(***************************************************************************)
(* What a run of NIBM.py records, and what it returns afterwards.          *)
(***************************************************************************)
\* key.lower() in normalized or normalized in key.lower(), read from the text
RelatedKey(key, n) == Contains(str_lower(key), n) \/ Contains(n, str_lower(key))

\* The operator is asked only about a key that is new and related to no key.
AsksOnlyAboutNewKeys ==
  (app = "cli" /\ pc = "prompt") =>
     /\ normalized \notin Keys(mappings)
     /\ \A k \in Keys(mappings) : ~RelatedKey(k, normalized)

\* The call on a label returns a code without asking.
Resolves(text, m) == ~cli_lookup(text, m).ask /\ cli_lookup(text, m).value # None

\* After the load no entry of the store is replaced or moved, what is
\* recorded is at once what the label gives, and a label that gives a code
\* gives the same code with the store of the next state.
StoreOnlyGrows ==
  /\ Len(mappings') >= Len(mappings)
  /\ \A i \in 1..Len(mappings) : mappings'[i] = mappings[i]
RecordedIsReturned ==
  (pc = "prompt" /\ pc' = "save") =>
     cli_lookup(session_text, mappings') = [ask |-> FALSE, value |-> module_code']
ResolvedStaysResolved ==
  mappings' # mappings =>
     \A l \in MemoLabels :
        Resolves(l, mappings) => cli_lookup(l, mappings') = cli_lookup(l, mappings)

\* C18: NIBM.py records a mapping only for a key that is not in the store and
\* that is related by substring to no stored key, it never overwrites a key,
\* and a label that has given a code (by exact match, by fallback or by the
\* operator's entry) gives the same code at every later call of the run,
\* whatever mappings are recorded in between.
C18_ResolutionIsStable ==
  /\ []AsksOnlyAboutNewKeys
  /\ [][(app = "cli" /\ stage # "start")
          => (StoreOnlyGrows /\ RecordedIsReturned /\ ResolvedStaysResolved)]_vars

\* "DSA OS" gave DSA by fallback on the key dsa, the key os was then recorded
\* with another code, and the count has called on "DSA OS" again.
C18_Witness ==
  /\ app = "cli" /\ stage = "count" /\ pc = "returned"
  /\ session_text = "DSA OS"
  /\ mappings = << <<"dsa", "DSA">>, <<"os", "EXAM">> >>
  /\ recorded = << <<"os", "EXAM">> >>
  /\ result = Str("DSA")

(***************************************************************************)
(* NIBM.py after build_module_list has returned.                           *)
(***************************************************************************)
AfterBuild ==
  app = "cli" /\ stage \in {"choose", "count", "breakdown", "missed", "report", "done"}

\* The cells of the schedule, as count_lectures_for_module reads them, that
\* would be asked about with the store as it is.
CellsToAskAbout ==
  {p \in 1..Len(Cells(df)) :
     Cells(df)[p] # "" /\ cli_lookup(Cells(df)[p], mappings).ask}

\* The cells whose code is the module k.
CellsOf(k) ==
  {p \in 1..Len(Cells(df)) :
     Cells(df)[p] # "" /\ cli_lookup(Cells(df)[p], mappings).value = Str(k)}

NoPromptAfterBuild ==
  AfterBuild =>
     /\ pc \in {"ready", "returned"}
     /\ CellsToAskAbout = {}
     /\ \A i \in 1..Len(module_list) : CellsOf(module_list[i]) # {}
     /\ (stage \in {"breakdown", "missed", "report", "done"}) => total_lectures >= 1

\* C19: in a run of NIBM.py, once build_module_list has returned every cell of
\* the schedule classifies without a prompt, so count_lectures_for_module and
\* show_session_breakdown never prompt and never change the store, every
\* module of the list has at least one session, and the run never ends on
\* "No sessions found for module".
C19_NoPromptAfterBuild ==
  /\ []NoPromptAfterBuild
  /\ [][AfterBuild => (StoreLeftAlone /\ stage' # "exit")]_vars

\* The count of a module is over, with a mapping recorded during the build.
C19_Witness ==
  /\ app = "cli" /\ stage = "breakdown"
  /\ recorded # <<>>
  /\ Len(module_list) = 2
  /\ total_lectures >= 1

(***************************************************************************)
(* The report on its own: every total up to MaxTotal, every missed count.  *)
(***************************************************************************)
\* NIBM.py has the total and the missed count its prompt returned;
\* attendlessnibm.py has the total, and its number widget holds the missed
\* count when "Calculate Attendance" is pressed.
InitReport ==
  /\ IdleAllowance
  /\ app \in {"cli", "ui"}
  /\ mappings = <<>>
  /\ file = Absent
  /\ pc = "ready"
  /\ session_text = ""
  /\ normalized = ""
  /\ module_code = None
  /\ result = None
  /\ recorded = <<>>
  /\ all_sessions = <<>>
  /\ next_session = 0
  /\ modules = {}
  /\ unmapped = <<>>
  /\ source = NoTable
  /\ df = NoTable
  /\ module_list = <<>>
  /\ selected_module = ""
  /\ choice = None
  /\ choice_index = 0
  /\ cell_index = 0
  /\ total_lectures \in 1..MaxTotal
  /\ details = <<>>
  /\ lecture_count = 0
  /\ tutorial_count = 0
  /\ IF app = "cli"
       THEN stage = "report" /\ missed_sessions \in {<<m>> : m \in 0..total_lectures}
       ELSE stage = "missed" /\ missed_sessions = None
  /\ attendance_percentage = None
  /\ status = ""

NextReport == CliReport \/ UiReport

SpecReport == InitReport /\ [][NextReport]_vars

Reported == stage = "done" /\ allowance # <<>>

\* C20: for every total >= 1 and every missed count in 0..total, a holiday
\* allowance above 0 comes with an attendance (total - missed) / total * 100
\* of at least 80 and so with the status GOOD; WARNING is never reported
\* together with an allowance above 0.
C20_PositiveAllowanceIsGood ==
  Reported =>
     /\ total_sessions >= 1 /\ current_missed \in 0..total_sessions
     /\ (allowance[1] > 0) =>
          (/\ (total_sessions - current_missed) * 100 >= 80 * total_sessions
           /\ float_ge(attendance_percentage, 80)
           /\ status = "GOOD")
     /\ ~(status = "WARNING" /\ allowance[1] > 0)

\* A report with an allowance above 0, and attendance below 100%.
C20_Witness ==
  /\ Reported
  /\ allowance[1] > 0
  /\ current_missed > 0
  /\ status = "GOOD"

(***************************************************************************)
(* The two classifiers on the same label and the same store.               *)
(***************************************************************************)
\* What NIBM.py and attendlessnibm.py give for the label and the store of the
\* call in progress, before anything is recorded.
CliGives == cli_lookup(session_text, mappings)
UiGives == ui_get_module_code_for_session(session_text, mappings)
FirstReturn == Called /\ module_code = None

\* The state is that of the program that made the call.
CallIsTheProgramsOwn ==
  /\ app = "cli" => /\ (pc = "prompt") = CliGives.ask
                    /\ result = CliGives.value
  /\ app = "ui" => (pc = "returned" /\ result = UiGives)

\* Where NIBM.py returns, attendlessnibm.py returns the same; where NIBM.py
\* asks, attendlessnibm.py returns no code.
ClassifiersAgree ==
  /\ ~CliGives.ask => UiGives = CliGives.value
  /\ CliGives.ask => UiGives = None

\* C21 as stated: for every store and every label the two classifiers agree.
C21_ClassifiersAgree ==
  FirstReturn => (CallIsTheProgramsOwn /\ ClassifiersAgree)

\* The keys that equal the label's key once the spaces are removed, and that
\* the substring rule does not relate to it.
SpacelessOnlyKeys ==
  SpacelessHits(mappings, LabelKey) \ SubstringHits(mappings, LabelKey)

\* C21: the two classifiers agree on a label with an exam keyword, on a
\* placeholder, on a label whose key is in the store, and on every other
\* label unless a key of the store equals the label's key once the spaces are
\* removed without being part of it or holding it.
C21_ClassifiersAgreeButForSpaces ==
  (FirstReturn /\ (~FallbackCase \/ SpacelessOnlyKeys = {}))
     => (CallIsTheProgramsOwn /\ ClassifiersAgree)

\* attendlessnibm.py has returned a code by fallback from a store of two keys,
\* the code NIBM.py gives.
C21_Witness ==
  /\ FallbackCase /\ SpacelessOnlyKeys = {}
  /\ app = "ui" /\ Len(mappings) = 2
  /\ result # None /\ CliGives.value = result
  /\ Cardinality(SubstringHits(mappings, LabelKey)) = 2

====
